---------------------------- MODULE Spec2Model ----------------------------
(***************************************************************************)
(* A model of u128.h: a 128-bit unsigned integer kept as two 64-bit limbs  *)
(* (lo, hi), with its shifts, comparisons, addition, multiplication and    *)
(* hexadecimal formatting.                                                 *)
(*                                                                         *)
(* TLC's integers are 32 bits wide, so the limb width is a parameter of    *)
(* the model: a half limb has HalfBits bits (32 in the program), a limb    *)
(* (u64) has Bits = 2*HalfBits bits (64), and a value (u128) has 2*Bits    *)
(* bits (128).  Every shift amount, mask and threshold of the code is      *)
(* written in terms of these, so that 32, 64 and 128 of the source read    *)
(* HalfBits, Bits and ValueBits here.  All u64 arithmetic wraps modulo     *)
(* 2^Bits, as the program's wraps modulo 2^64.                             *)
(***************************************************************************)
EXTENDS Integers, Sequences, FiniteSets, TLC

VARIABLES
    build,  \* which #if branch of mul64 the build selected
    a, b,   \* 64-bit word operands
    x, y,   \* u128 objects
    n,      \* unsigned shift count
    os,     \* the characters written to the output stream
    op,     \* the operation that has been applied ("words"/"values": none yet)
    ret     \* what that operation returned

vars == <<build, a, b, x, y, n, os, op, ret>>

---------------------------------------------------------------------------
(* Widths *)

\* Bits of a half limb (the program's 32).
HalfBits == 3

\* How far past ValueBits the shift counts are drawn.
ShiftOver == 3

Bits == 2 * HalfBits
ValueBits == 2 * Bits

Two32 == 2 ^ HalfBits
Two64 == 2 ^ Bits
Two128 == 2 ^ ValueBits

\* 0xFFFFFFFFULL
HalfMask == Two32 - 1
UINT64_MAX == Two64 - 1

Words == 0 .. UINT64_MAX

\* The limbs the u128 operands are built from: the corners of the range, the
\* half-limb boundary and the top bit.
Limbs == {0, 1, 2, HalfMask, Two32, Two64 \div 2, UINT64_MAX - 1, UINT64_MAX}

\* The same with two alternating bit patterns, 0101... and 1010...
AllLimbs == Limbs \cup {UINT64_MAX \div 3, 2 * (UINT64_MAX \div 3)}

Builds == {"msvc", "int128", "portable"}

---------------------------------------------------------------------------
(* 64-bit unsigned arithmetic *)

\* Conversion to u64: unsigned arithmetic wraps modulo 2^64.
U64(v) == v % Two64

RECURSIVE BitAnd(_, _)
BitAnd(p, q) ==
    IF p = 0 \/ q = 0 THEN 0
    ELSE (p % 2) * (q % 2) + 2 * BitAnd(p \div 2, q \div 2)

RECURSIVE BitOr(_, _)
BitOr(p, q) ==
    IF p = 0 THEN q
    ELSE IF q = 0 THEN p
    ELSE (IF p % 2 = 1 \/ q % 2 = 1 THEN 1 ELSE 0)
         + 2 * BitOr(p \div 2, q \div 2)

\* v << k and v >> k on a u64, for 0 <= k < Bits.
Shl64(v, k) == U64(v * 2 ^ k)
Shr64(v, k) == v \div 2 ^ k

---------------------------------------------------------------------------
(* struct u128 *)

u128(lo_, hi_) == [lo |-> lo_, hi |-> hi_]
u128_1(lo_) == [lo |-> lo_, hi |-> 0]

ZERO == u128(0, 0)
ONE == u128(1, 0)
MAX == u128(UINT64_MAX, UINT64_MAX)

MulValues == {u128(l, h) : l \in Limbs, h \in Limbs}
Values == {u128(l, h) : l \in AllLimbs, h \in AllLimbs}

\* The integer hi*2^64 + lo a limb pair stands for.
Value(v) == v.hi * Two64 + v.lo

---------------------------------------------------------------------------
(* Shifts *)

\* operator<<= without the bits carried from lo into hi.
shl_assign_nocarry(self, nbits) ==
    IF nbits = 0 THEN self
    ELSE IF nbits >= ValueBits THEN u128(0, 0)
    ELSE LET s1 == IF nbits >= Bits THEN u128(0, self.lo) ELSE self
             k == IF nbits >= Bits THEN nbits - Bits ELSE nbits
         IN  IF k > 0 THEN u128(Shl64(s1.lo, k), Shl64(s1.hi, k)) ELSE s1

\* constexpr u128& operator<<=(unsigned nbits)
shl_assign(self, nbits) ==
    IF nbits = 0 THEN self
    ELSE IF nbits >= ValueBits THEN u128(0, 0)
    ELSE LET s1 == IF nbits >= Bits THEN u128(0, self.lo) ELSE self
             k == IF nbits >= Bits THEN nbits - Bits ELSE nbits
         IN  IF k > 0
             THEN u128(Shl64(s1.lo, k),
                       BitOr(Shl64(s1.hi, k), Shr64(s1.lo, Bits - k)))
             ELSE s1

\* constexpr u128& operator>>=(unsigned nbits)
shr_assign(self, nbits) ==
    IF nbits = 0 THEN self
    ELSE IF nbits >= ValueBits THEN u128(0, 0)
    ELSE LET s1 == IF nbits >= Bits THEN u128(self.hi, 0) ELSE self
             k == IF nbits >= Bits THEN nbits - Bits ELSE nbits
         IN  IF k > 0
             THEN u128(BitOr(Shr64(s1.lo, k), Shl64(s1.hi, Bits - k)),
                       Shr64(s1.hi, k))
             ELSE s1

\* operator<< and operator>>: u128(*this) <<= nbits, on a copy.
shl(self, nbits) == shl_assign(u128(self.lo, self.hi), nbits)
shr(self, nbits) == shr_assign(u128(self.lo, self.hi), nbits)

---------------------------------------------------------------------------
(* Comparison *)

eq(self, o) == self.lo = o.lo /\ self.hi = o.hi
ne(self, o) == ~eq(self, o)
\* operator< comparing lo before hi.
lt_lo_first(self, o) == self.lo < o.lo \/ (self.lo = o.lo /\ self.hi < o.hi)

lt(self, o) == self.hi < o.hi \/ (self.hi = o.hi /\ self.lo < o.lo)
le(self, o) == ~lt(o, self)
gt(self, o) == lt(o, self)
ge(self, o) == ~lt(self, o)

---------------------------------------------------------------------------
(* Addition *)

(* operator+=(const u128& other) takes its operand by reference, so it is  *)
(* modelled on a store m of named objects: `this' and `other' name the     *)
(* objects the call is made on, and may name the same one.  The two        *)
(* statements run in order, each reading the store the one before left.    *)
add_assign_nocarry(m, this, other) ==
    LET m1 == [m EXCEPT ![this].lo = U64(m[this].lo + m[other].lo)]
    IN  [m1 EXCEPT ![this].hi = U64(m1[this].hi + m1[other].hi)]

add_assign(m, this, other) ==
    LET m1 == [m EXCEPT ![this].lo = U64(m[this].lo + m[other].lo)]
        carry == IF m1[this].lo < m1[other].lo THEN 1 ELSE 0
    IN  [m1 EXCEPT ![this].hi = U64(m1[this].hi + U64(m1[other].hi + carry))]

\* operator+= applied to an object and a distinct one (a temporary, a copy).
add_assign_distinct(self, other) ==
    add_assign([this |-> self, other |-> other], "this", "other").this

\* constexpr u128& operator+=(const u64 other): the word is passed by value.
add_assign_u64(self, other) ==
    LET lo1 == U64(self.lo + other)
    IN  u128(lo1, U64(self.hi + (IF lo1 < other THEN 1 ELSE 0)))

\* operator+(const u128& other) const: u128(*this) += other.  The copy is a
\* new object even when other is *this.
add(m, this, other) ==
    add_assign([tmp |-> m[this]] @@ m, "tmp", other).tmp

\* operator+(const u64 other) const
add_u64(self, other) == add_assign_u64(u128(self.lo, self.hi), other)

\* friend operator+(const u64 a, const u128& b): u128(a) += b
u64_add(a_, b_) == add_assign_distinct(u128_1(a_), b_)

---------------------------------------------------------------------------
(* mul64 and mul64_portable *)

\* LO without its mask.
LO_nomask(v) == v

LO(v) == BitAnd(v, HalfMask)
HI(v) == Shr64(v, HalfBits)

p00(a_, b_) == U64(LO(a_) * LO(b_))
p01(a_, b_) == U64(LO(a_) * HI(b_))
\* p10 taking the high half of b.
p10_hihi(a_, b_) == U64(HI(a_) * HI(b_))

p10(a_, b_) == U64(HI(a_) * LO(b_))
p11(a_, b_) == U64(HI(a_) * HI(b_))

\* const u64 x = HI(p00) + LO(p01) + LO(p10);
mid_x(a_, b_) == U64(U64(HI(p00(a_, b_)) + LO(p01(a_, b_))) + LO(p10(a_, b_)))

\* y without the carry hi32(x) of the middle accumulator.
mid_y_nocarry(a_, b_) ==
    U64(U64(HI(p01(a_, b_)) + HI(p10(a_, b_))) + LO(p11(a_, b_)))

\* const u64 y = HI(p01) + HI(p10) + LO(p11) + HI(x);
mid_y(a_, b_) ==
    U64(U64(U64(HI(p01(a_, b_)) + HI(p10(a_, b_))) + LO(p11(a_, b_)))
        + HI(mid_x(a_, b_)))

mul64_portable(a_, b_) ==
    u128(BitOr(LO(p00(a_, b_)), Shl64(mid_x(a_, b_), HalfBits)),
         U64(mid_y(a_, b_) + Shl64(HI(p11(a_, b_)), HalfBits)))

\* lo = _umul128(a, b, &hi): the low 64 bits of the product are returned, the
\* high 64 bits are stored through the pointer.
umul128(a_, b_) == u128((a_ * b_) % Two64, (a_ * b_) \div Two64)

\* unsigned __int128 prod = (unsigned __int128)a * (unsigned __int128)b;
\* return { (u64)prod, prod >> 64 };
mul64_int128(a_, b_) ==
    LET prod == (a_ * b_) % Two128
    IN  u128(U64(prod), U64(prod \div Two64))

mul64(bld, a_, b_) ==
    CASE bld = "msvc" -> umul128(a_, b_)
      [] bld = "int128" -> mul64_int128(a_, b_)
      [] OTHER -> mul64_portable(a_, b_)

\* test_product(a, b, mute): the portable result against the intrinsic's.
test_product(a_, b_) ==
    LET prod == mul64_portable(a_, b_)
        ref == umul128(a_, b_)
    IN  ref.lo = prod.lo /\ ref.hi = prod.hi

---------------------------------------------------------------------------
(* Multiplication of values *)

\* operator*(u64) adding p_hi without shifting it into the high limb.
mul_u64_noshift(bld, self, other) ==
    LET p_lo == mul64(bld, self.lo, other)
        p_hi == mul64(bld, self.hi, other)
    IN  add_assign_distinct(p_lo, p_hi)

\* u128 operator*(const u64 other) const
mul_u64(bld, self, other) ==
    LET p_lo == mul64(bld, self.lo, other)
        p_hi == mul64(bld, self.hi, other)
    IN  add_assign_distinct(p_lo, shl(p_hi, Bits))

\* operator*(u128) without the hi * other.lo partial product.
mul_no_hilo(bld, self, other) ==
    LET res0 == mul64(bld, self.lo, other.lo)
    IN  add_assign_distinct(res0, shl(mul64(bld, self.lo, other.hi), Bits))

\* u128 operator*(const u128& other) const
mul(bld, self, other) ==
    LET res0 == mul64(bld, self.lo, other.lo)
        res1 == add_assign_distinct(res0, shl(mul64(bld, self.lo, other.hi), Bits))
        res2 == add_assign_distinct(res1, shl(mul64(bld, self.hi, other.lo), Bits))
    IN  res2

\* friend operator*(const u64 a, const u128& b): b * a
u64_mul(bld, a_, b_) == mul_u64(bld, b_, a_)

---------------------------------------------------------------------------
(* Formatting *)

\* The digits std::hex writes (lowercase: std::uppercase is not set).
HexChars == <<"0", "1", "2", "3", "4", "5", "6", "7",
              "8", "9", "a", "b", "c", "d", "e", "f">>

\* The digits of an unsigned integer in base 16, most significant first, as
\* operator<<(u64) writes them before any padding.
RECURSIVE HexDigits(_)
HexDigits(v) ==
    IF v < 16 THEN <<HexChars[v + 1]>>
    ELSE HexDigits(v \div 16) \o <<HexChars[(v % 16) + 1]>>

\* The field width ignored.
Pad_none(s, width, fill) == s

\* std::setw(width) with std::setfill(fill): output shorter than the width is
\* filled on the left; longer output is written whole.
Pad(s, width, fill) ==
    IF Len(s) >= width THEN s
    ELSE [i \in 1 .. (width - Len(s)) |-> fill] \o s

\* std::setw(16): the hexadecimal digits of a 64-bit limb.
HexWidth == (Bits + 3) \div 4

\* std::string to_string_hex() const
to_string_hex(self) ==
    <<"0", "x">> \o Pad(HexDigits(self.hi), HexWidth, "0")
                 \o Pad(HexDigits(self.lo), HexWidth, "0")

\* friend std::ostream& operator<<(std::ostream& os, const u128& v)
stream_insert(os_, v) == os_ \o to_string_hex(v)

---------------------------------------------------------------------------
(* The multiplication specification: word pairs *)

InitWords ==
    /\ build \in Builds
    /\ a \in Words
    /\ b \in Words
    /\ x = ZERO
    /\ y = ZERO
    /\ n = 0
    /\ os = <<>>
    /\ op = "words"
    /\ ret = ZERO

DoMul64 ==
    /\ op = "words"
    /\ op' = "mul64"
    /\ ret' = mul64(build, a, b)
    /\ UNCHANGED <<build, a, b, x, y, n, os>>

DoMul64Portable ==
    /\ op = "words"
    /\ op' = "mul64_portable"
    /\ ret' = mul64_portable(a, b)
    /\ UNCHANGED <<build, a, b, x, y, n, os>>

DoTestProduct ==
    /\ op = "words"
    /\ op' = "test_product"
    /\ ret' = test_product(a, b)
    /\ UNCHANGED <<build, a, b, x, y, n, os>>

---------------------------------------------------------------------------
(* The multiplication specification: value pairs *)

InitMulValues ==
    /\ build \in Builds
    /\ a = 0
    /\ b = 0
    /\ x \in MulValues
    /\ y \in MulValues
    /\ n = 0
    /\ os = <<>>
    /\ op = "values"
    /\ ret = ZERO

\* x * y
DoMul ==
    /\ op = "values"
    /\ op' = "mul"
    /\ ret' = mul(build, x, y)
    /\ UNCHANGED <<build, a, b, x, y, n, os>>

\* x * w
DoMulWord ==
    /\ op = "values"
    /\ \E w \in Limbs :
        /\ a' = w
        /\ ret' = mul_u64(build, x, w)
    /\ op' = "mul_u64"
    /\ UNCHANGED <<build, b, x, y, n, os>>

\* w * x
DoWordMul ==
    /\ op = "values"
    /\ \E w \in Limbs :
        /\ a' = w
        /\ ret' = u64_mul(build, w, x)
    /\ op' = "u64_mul"
    /\ UNCHANGED <<build, b, x, y, n, os>>

NextMul ==
    \/ DoMul64
    \/ DoMul64Portable
    \/ DoTestProduct
    \/ DoMul
    \/ DoMulWord
    \/ DoWordMul

SpecMul == (InitWords \/ InitMulValues) /\ [][NextMul]_vars

---------------------------------------------------------------------------
(* Oracles *)

\* A limb pair whose limbs are both 64-bit words.
IsU128(v) == v.lo \in Words /\ v.hi \in Words

(* (A * B) mod M for 0 <= A < M, by doubling: A*B = 2*(A*(B div 2)) +      *)
(* (B mod 2)*A.  No intermediate exceeds 3*M, where the product A*B itself *)
(* would leave the range of TLC's integers.                                *)
RECURSIVE MulMod(_, _, _)
MulMod(A, B, M) ==
    IF B = 0 THEN 0
    ELSE (2 * MulMod(A, B \div 2, M) + (B % 2) * A) % M

---------------------------------------------------------------------------
(* Claims about multiplication, checked under SpecMul *)

\* C1: for all 64-bit a and b, mul64_portable(a, b) is the limb pair (lo, hi)
\* with hi*2^64 + lo = a*b exactly, and so equals in both limbs what mul64
\* returns on every build path (the intrinsic and the widened product);
\* test_product, which compares the two, returns true.
C1_PortableIsExact ==
    /\ op = "mul64_portable" =>
        /\ IsU128(ret)
        /\ Value(ret) = a * b
        /\ ret = umul128(a, b)
        /\ ret = mul64_int128(a, b)
    /\ op = "mul64" =>
        /\ IsU128(ret)
        /\ Value(ret) = a * b
        /\ ret = mul64_portable(a, b)
    /\ op = "test_product" => ret = TRUE

C1_Witness ==
    /\ op = "mul64_portable"
    /\ a = UINT64_MAX
    /\ b = UINT64_MAX
    /\ ret = u128(1, UINT64_MAX - 1)

C3_MulWordIsProductMod ==
    /\ op = "mul_u64" =>
        /\ IsU128(ret)
        /\ Value(ret) = (Value(x) * a) % Two128
        /\ ret = mul(build, x, u128(a, 0))
    /\ op = "u64_mul" =>
        /\ Value(ret) = (Value(x) * a) % Two128
        /\ ret = mul_u64(build, x, a)

\* value(0, 2^64-1) * 2: the bits of hi*w at and above bit 128 are dropped.
C3_Witness ==
    /\ op = "mul_u64"
    /\ x = u128(0, UINT64_MAX)
    /\ a = 2
    /\ ret = u128(0, UINT64_MAX - 1)

\* C4: multiplication commutes: mul64(a, b) = mul64(b, a) and
\* mul64_portable(a, b) = mul64_portable(b, a) in both limbs, and
\* x * y = y * x for values.
C4_MulCommutes ==
    /\ op = "mul64" => ret = mul64(build, b, a)
    /\ op = "mul64_portable" => ret = mul64_portable(b, a)
    /\ op = "mul" => ret = mul(build, y, x)

C4_Witness ==
    /\ op = "mul"
    /\ x = u128(2, UINT64_MAX)
    /\ y = u128(UINT64_MAX, 1)
    /\ ret = u128(UINT64_MAX - 1, 4)

\* C9: in mul64_portable no 64-bit multiplication or addition wraps: the
\* partial products are below 2^64, x = hi32(p00) + lo32(p01) + lo32(p10) is
\* at most 3*(2^32-1) so hi32(x) is at most 2, y is at most 3*(2^32-1)+2, and
\* the high word y + (hi32(p11) << 32) is below 2^64; the only bits dropped
\* are the top 32 bits of x in x << 32, which are the bits hi32(x) carries.
C9_NoWrap ==
    op = "mul64_portable" =>
        LET xs == HI(p00(a, b)) + LO(p01(a, b)) + LO(p10(a, b))
            ys == HI(p01(a, b)) + HI(p10(a, b)) + LO(p11(a, b))
                  + HI(mid_x(a, b))
        IN  /\ LO(a) * LO(b) < Two64
            /\ LO(a) * HI(b) < Two64
            /\ HI(a) * LO(b) < Two64
            /\ HI(a) * HI(b) < Two64
            /\ xs <= 3 * (Two32 - 1)
            /\ mid_x(a, b) = xs
            /\ HI(mid_x(a, b)) <= 2
            /\ ys <= 3 * (Two32 - 1) + 2
            /\ mid_y(a, b) = ys
            /\ HI(p11(a, b)) * Two32 < Two64
            /\ ys + HI(p11(a, b)) * Two32 < Two64
            /\ ret.hi = ys + HI(p11(a, b)) * Two32
            /\ xs * Two32 - Shl64(mid_x(a, b), HalfBits)
                 = HI(mid_x(a, b)) * Two64
            /\ ret.lo = LO(p00(a, b)) + (xs * Two32 - HI(xs) * Two64)

\* The middle accumulator carries: x << 32 drops bits, hi32(x) keeps them.
C9_Witness ==
    /\ op = "mul64_portable"
    /\ HI(mid_x(a, b)) >= 1
    /\ mid_y(a, b) > HalfMask

---------------------------------------------------------------------------
(* The addition specification *)

InitValues ==
    /\ build = "portable"
    /\ a = 0
    /\ b = 0
    /\ x \in Values
    /\ y \in Values
    /\ n = 0
    /\ os = <<>>
    /\ op = "values"
    /\ ret = ZERO

\* The objects of the program: x and y.
Store == [x |-> x, y |-> y]

\* x + y
DoAdd ==
    /\ op = "values"
    /\ op' = "add"
    /\ ret' = add(Store, "x", "y")
    /\ UNCHANGED <<build, a, b, x, y, n, os>>

\* x + x
DoAddSelf ==
    /\ op = "values"
    /\ op' = "add_self"
    /\ ret' = add(Store, "x", "x")
    /\ UNCHANGED <<build, a, b, x, y, n, os>>

\* x + w
DoAddWord ==
    /\ op = "values"
    /\ \E w \in AllLimbs :
        /\ a' = w
        /\ ret' = add_u64(x, w)
    /\ op' = "add_u64"
    /\ UNCHANGED <<build, b, x, y, n, os>>

\* w + x
DoWordAdd ==
    /\ op = "values"
    /\ \E w \in AllLimbs :
        /\ a' = w
        /\ ret' = u64_add(w, x)
    /\ op' = "u64_add"
    /\ UNCHANGED <<build, b, x, y, n, os>>

\* x += y, which returns *this
DoAddAssign ==
    /\ op = "values"
    /\ op' = "add_assign"
    /\ LET m == add_assign(Store, "x", "y")
       IN  /\ x' = m.x
           /\ y' = m.y
    /\ ret' = x'
    /\ UNCHANGED <<build, a, b, n, os>>

\* x += x: the operand is the object itself
DoAddAssignSelf ==
    /\ op = "values"
    /\ op' = "add_assign_self"
    /\ LET m == add_assign(Store, "x", "x")
       IN  /\ x' = m.x
           /\ y' = m.y
    /\ ret' = x'
    /\ UNCHANGED <<build, a, b, n, os>>

\* x += w
DoAddAssignWord ==
    /\ op = "values"
    /\ \E w \in AllLimbs :
        /\ a' = w
        /\ x' = add_assign_u64(x, w)
    /\ op' = "add_assign_u64"
    /\ ret' = x'
    /\ UNCHANGED <<build, b, y, n, os>>

NextAdd ==
    \/ DoAdd
    \/ DoAddSelf
    \/ DoAddWord
    \/ DoWordAdd
    \/ DoAddAssign
    \/ DoAddAssignSelf
    \/ DoAddAssignWord

SpecAdd == InitValues /\ [][NextAdd]_vars

\* C5: for all values x and y, x + y is (X+Y) mod 2^128: the low limb is
\* (x.lo + y.lo) mod 2^64 and the high limb (x.hi + y.hi + carry) mod 2^64,
\* with carry 1 exactly when x.lo + y.lo >= 2^64; adding a word w, on either
\* side, gives what adding u128(w, 0) gives;
\* u128(2^64-1, 0) + u128(1, 0) = u128(0, 1).
C5_AddIsSumMod ==
    /\ op = "add" =>
        LET carry == IF x.lo + y.lo >= Two64 THEN 1 ELSE 0
        IN  /\ Value(ret) = (Value(x) + Value(y)) % Two128
            /\ ret.lo = (x.lo + y.lo) % Two64
            /\ ret.hi = (x.hi + y.hi + carry) % Two64
            /\ (x = u128(UINT64_MAX, 0) /\ y = u128(1, 0) => ret = u128(0, 1))
    /\ op = "add_self" =>
        /\ IsU128(ret)
        /\ Value(ret) = (2 * Value(x)) % Two128
    /\ op = "add_u64" =>
        /\ IsU128(ret)
        /\ Value(ret) = (Value(x) + a) % Two128
        /\ ret = add([x |-> x, w |-> u128(a, 0)], "x", "w")
    /\ op = "u64_add" =>
        /\ IsU128(ret)
        /\ Value(ret) = (Value(x) + a) % Two128
        /\ ret = add([x |-> x, w |-> u128(a, 0)], "x", "w")

C5_Witness ==
    /\ op = "add"
    /\ x = u128(UINT64_MAX, 0)
    /\ y = u128(1, 0)
    /\ ret = u128(0, 1)

\* C10: compound addition agrees with non-mutating addition for every pair
\* of operands, the right operand being the left object included: a step
\* x += y leaves in x what x + y returned for the values before the call,
\* and a step x += x leaves (2*X) mod 2^128 in x.
C10_CompoundAgrees ==
    [][/\ op' = "add_assign" => x' = add(Store, "x", "y")
       /\ op' = "add_assign_self" =>
            /\ x' = add(Store, "x", "x")
            /\ Value(x') = (2 * Value(x)) % Two128]_vars

---------------------------------------------------------------------------
(* The shift specification *)

ShiftCounts == 0 .. (ValueBits + ShiftOver)

InitShift ==
    /\ build = "portable"
    /\ a = 0
    /\ b = 0
    /\ x \in Values
    /\ y = ZERO
    /\ n \in ShiftCounts
    /\ os = <<>>
    /\ op = "values"
    /\ ret = ZERO

\* x << n
DoShl ==
    /\ op = "values"
    /\ op' = "shl"
    /\ ret' = shl(x, n)
    /\ UNCHANGED <<build, a, b, x, y, n, os>>

\* x >> n
DoShr ==
    /\ op = "values"
    /\ op' = "shr"
    /\ ret' = shr(x, n)
    /\ UNCHANGED <<build, a, b, x, y, n, os>>

\* x <<= n, which returns *this
DoShlAssign ==
    /\ op = "values"
    /\ op' = "shl_assign"
    /\ x' = shl_assign(x, n)
    /\ ret' = x'
    /\ UNCHANGED <<build, a, b, y, n, os>>

\* x >>= n
DoShrAssign ==
    /\ op = "values"
    /\ op' = "shr_assign"
    /\ x' = shr_assign(x, n)
    /\ ret' = x'
    /\ UNCHANGED <<build, a, b, y, n, os>>

NextShift == DoShl \/ DoShr \/ DoShlAssign \/ DoShrAssign

SpecShift == InitShift /\ [][NextShift]_vars

\* (V * 2^k) mod 2^128 and floor(V / 2^k).
ShlOracle(V, k) == MulMod(V, 2 ^ k, Two128)
ShrOracle(V, k) == V \div 2 ^ k

\* C6: for every value x and every count n, x << n is (X * 2^n) mod 2^128
\* and x >> n is floor(X / 2^n): (0,0) for n >= 128, x itself for n = 0, and
\* u128(1) << 64 = u128(0, 1); the steps x <<= n and x >>= n leave the same
\* result in x.
C6_ShiftsAreExact ==
    [][/\ op' = "shl" =>
            /\ IsU128(ret')
            /\ Value(ret') = ShlOracle(Value(x), n)
            /\ x' = x
       /\ op' = "shl_assign" =>
            /\ IsU128(x')
            /\ Value(x') = ShlOracle(Value(x), n)
            /\ ret' = x'
       /\ op' = "shr" =>
            /\ IsU128(ret')
            /\ Value(ret') = ShrOracle(Value(x), n)
            /\ x' = x
       /\ op' = "shr_assign" =>
            /\ IsU128(x')
            /\ Value(x') = ShrOracle(Value(x), n)
            /\ ret' = x'
       /\ op' \in {"shl", "shr", "shl_assign", "shr_assign"} =>
            /\ n >= ValueBits => ret' = u128(0, 0)
            /\ n = 0 => ret' = x
       /\ op' = "shl" /\ x = u128_1(1) /\ n = Bits => ret' = u128(0, 1)]_vars

\* The static_assert of the header: u128(1) << 64 == u128(0, 1).
C6_Witness ==
    /\ op = "shl"
    /\ x = u128(1, 0)
    /\ n = Bits
    /\ ret = u128(0, 1)

---------------------------------------------------------------------------
(* The comparison specification *)

DoEq ==
    /\ op = "values"
    /\ op' = "eq"
    /\ ret' = eq(x, y)
    /\ UNCHANGED <<build, a, b, x, y, n, os>>

DoNe ==
    /\ op = "values"
    /\ op' = "ne"
    /\ ret' = ne(x, y)
    /\ UNCHANGED <<build, a, b, x, y, n, os>>

DoLt ==
    /\ op = "values"
    /\ op' = "lt"
    /\ ret' = lt(x, y)
    /\ UNCHANGED <<build, a, b, x, y, n, os>>

DoLe ==
    /\ op = "values"
    /\ op' = "le"
    /\ ret' = le(x, y)
    /\ UNCHANGED <<build, a, b, x, y, n, os>>

DoGt ==
    /\ op = "values"
    /\ op' = "gt"
    /\ ret' = gt(x, y)
    /\ UNCHANGED <<build, a, b, x, y, n, os>>

DoGe ==
    /\ op = "values"
    /\ op' = "ge"
    /\ ret' = ge(x, y)
    /\ UNCHANGED <<build, a, b, x, y, n, os>>

NextCmp == DoEq \/ DoNe \/ DoLt \/ DoLe \/ DoGt \/ DoGe

SpecCmp == InitValues /\ [][NextCmp]_vars

\* (h1, l1) before (h2, l2) in the lexicographic order of the pairs.
LexLess(p, q) == p[1] < q[1] \/ (p[1] = q[1] /\ p[2] < q[2])

\* C7: x < y exactly when (x.hi, x.lo) is lexicographically smaller than
\* (y.hi, y.lo), that is when X < Y; x == y exactly when both limbs are
\* equal; exactly one of x < y, x == y, x > y holds; and !=, <=, >, >= agree
\* with the same numeric order (u128(0, 1) > u128(2^64-1, 0)).
C7_OrderIsNumeric ==
    /\ op = "lt" =>
        /\ ret = LexLess(<<x.hi, x.lo>>, <<y.hi, y.lo>>)
        /\ ret = (Value(x) < Value(y))
    /\ op = "eq" =>
        /\ ret = (x.lo = y.lo /\ x.hi = y.hi)
        /\ ret = (Value(x) = Value(y))
    /\ op = "ne" => ret = (Value(x) # Value(y))
    /\ op = "le" => ret = (Value(x) <= Value(y))
    /\ op = "gt" =>
        /\ ret = (Value(x) > Value(y))
        /\ (x = u128(0, 1) /\ y = u128(UINT64_MAX, 0) => ret = TRUE)
    /\ op = "ge" => ret = (Value(x) >= Value(y))
    /\ op \in {"lt", "eq", "gt"} =>
        \/ lt(x, y) /\ ~eq(x, y) /\ ~gt(x, y)
        \/ ~lt(x, y) /\ eq(x, y) /\ ~gt(x, y)
        \/ ~lt(x, y) /\ ~eq(x, y) /\ gt(x, y)

\* The high limb dominates.
C7_Witness ==
    /\ op = "gt"
    /\ x = u128(0, 1)
    /\ y = u128(UINT64_MAX, 0)
    /\ ret = TRUE

---------------------------------------------------------------------------
(* The formatting specification *)

\* x.to_string_hex()
DoToStringHex ==
    /\ op = "values"
    /\ op' = "to_string_hex"
    /\ ret' = to_string_hex(x)
    /\ UNCHANGED <<build, a, b, x, y, n, os>>

\* os << x
DoStreamInsert ==
    /\ op = "values"
    /\ op' = "stream_insert"
    /\ os' = stream_insert(os, x)
    /\ ret' = os'
    /\ UNCHANGED <<build, a, b, x, y, n>>

NextHex == DoToStringHex \/ DoStreamInsert

SpecHex == InitValues /\ [][NextHex]_vars

\* The number a sequence of hexadecimal digits writes; -1 when a character
\* is not one of 0-9, a-f.
RECURSIVE HexValue(_)
HexValue(s) ==
    IF s = <<>> THEN 0
    ELSE LET c == s[Len(s)]
             d == {i \in 1 .. 16 : HexChars[i] = c}
             rest == HexValue(SubSeq(s, 1, Len(s) - 1))
         IN  IF d = {} \/ rest < 0 THEN -1
             ELSE 16 * rest + (CHOOSE i \in d : TRUE) - 1

=============================================================================
